---- MODULE Spec2Model ----
(***************************************************************************)
(* MetaEnvelope of tastypie/envelopes.py: one envelope object, built from  *)
(* an optional validator, an optional HttpResponse and optional raw        *)
(* content, on which a caller invokes process(), add_errors(),             *)
(* set_status(), clear_data() and transform() in any order.                *)
(*                                                                         *)
(* JSON values are records [t, f, l, s]: t is the kind, f the mapping of a *)
(* dict, l the items of a list, s the text of a scalar.  A Python          *)
(* exception leaving a method is recorded in exc, with the object's fields *)
(* as they were when it was raised.                                        *)
(***************************************************************************)
EXTENDS Integers, Sequences, FiniteSets, TLC

VARIABLES validation, response, content,
          is_modified, is_processed,
          status, errors, data, pagination,
          exc, out, last, ncalls

vars == <<validation, response, content, is_modified, is_processed,
          status, errors, data, pagination, exc, out, last, ncalls>>

\* Number of method calls made on one envelope after its construction.
MaxCalls == 3

-----------------------------------------------------------------------------
\* JSON values

EmptyMap == [k \in {} |-> <<>>]

JNull == [t |-> "null", f |-> EmptyMap, l |-> <<>>, s |-> ""]

JStr(x) == [t |-> "str", f |-> EmptyMap, l |-> <<>>, s |-> x]

JNum(x) == [t |-> "num", f |-> EmptyMap, l |-> <<>>, s |-> x]

JMap(m) == [t |-> "dict", f |-> m, l |-> <<>>, s |-> ""]

JList(q) == [t |-> "list", f |-> EmptyMap, l |-> q, s |-> ""]

EmptyDict == JMap(EmptyMap)

Keys(j) == DOMAIN j.f

\* Python truthiness of a JSON value: None, {} and [] are false.
Truthy(j) ==
    CASE j.t = "null" -> FALSE
      [] j.t = "dict" -> DOMAIN j.f # {}
      [] j.t = "list" -> j.l # <<>>
      [] OTHER -> TRUE

Put(m, k, v) == [x \in DOMAIN m \cup {k} |-> IF x = k THEN v ELSE m[x]]

InList(x, q) == \E i \in 1..Len(q) : q[i] = x

-----------------------------------------------------------------------------
\* Inputs of the constructor

PaginationMeta == JMap([limit |-> JNum("20"), offset |-> JNum("0"), total_count |-> JNum("1")])

ObjectsList == JList(<<JMap([id |-> JNum("1")])>>)

PayloadValue(k) ==
    CASE k = "meta" -> PaginationMeta
      [] k = "objects" -> ObjectsList
      [] k = "data" -> JMap([name |-> JStr("x")])
      [] k = "id" -> JNum("1")
      [] OTHER -> JStr("x")

Payload(K) == JMap([k \in K |-> PayloadValue(k)])

KeySets == { {"id", "name"}, {"meta", "objects"}, {"meta", "data"}, {"meta", "data", "id"} }

Payloads == { Payload(K) : K \in KeySets }

ResponseCodes == {200, 201, 404, 500}

NoResponse == [present |-> FALSE, status_code |-> 0, json |-> FALSE, body |-> JNull]

HttpResponse(code, isjson, body) ==
    [present |-> TRUE, status_code |-> code, json |-> isjson, body |-> body]

Responses ==
    {NoResponse}
      \cup { HttpResponse(200, TRUE, b) : b \in Payloads }
      \cup { HttpResponse(c, TRUE, Payload({"id", "name"})) : c \in ResponseCodes }
      \cup { HttpResponse(200, FALSE, JNull) }

Contents == {JNull, EmptyDict} \cup Payloads

Validations == {"None", "valid", "invalid"}

\* The constructor arguments explored: raw content that is a non-empty dict
\* makes process() ignore the response body, so it is paired with one body.
Inputs ==
    { i \in Responses \X Contents :
        Truthy(i[2]) => (i[1].present =>
                           /\ i[1].json
                           /\ i[1].body = Payload({"id", "name"})
                           /\ i[1].status_code \in {200, 404}) }

-----------------------------------------------------------------------------
\* Arguments of add_errors: a message string, a mapping of error lists, or
\* a value that is neither (None, a list, ...).

StrPayload(x) == [t |-> "str", s |-> x, m |-> EmptyMap]

DictPayload(m) == [t |-> "dict", s |-> "", m |-> m]

OtherPayload == [t |-> "other", s |-> "", m |-> EmptyMap]

FieldErrors == [field1 |-> <<"required">>]

\* FormValidation.is_valid(bundle): the form's errors, {} when it is valid.
is_valid(v, d) == IF v = "invalid" THEN FieldErrors ELSE EmptyMap

-----------------------------------------------------------------------------
\* The envelope object as a record, and its methods as operators on it.

NoPagination == [present |-> FALSE, value |-> JNull]

NoBody == [status |-> 0, errors |-> EmptyMap, data |-> JNull, pagination |-> NoPagination]

NoOutput == [kind |-> "none", response |-> NoResponse, body |-> NoBody]

\* self at the start of a call: no exception pending, nothing returned yet.
Self ==
    [status |-> status, errors |-> errors, data |-> data, pagination |-> pagination,
     is_modified |-> is_modified, is_processed |-> is_processed,
     exc |-> "none", out |-> NoOutput]

\* __init__: 'status': self.response and self.response.status_code or 200
InitialStatus(r) == IF r.present /\ r.status_code # 0 THEN r.status_code ELSE 200

update_data(e, d) == [e EXCEPT !.data = d]

clear_data(e) == [e EXCEPT !.data = EmptyDict]

get_status(e) == e.status

get_errors(e) == e.errors

contains_errors(e) == get_status(e) >= 400 \/ DOMAIN get_errors(e) # {}

add_errors(e, category, payload) ==
    LET created == IF category \notin DOMAIN e.errors
                   THEN Put(e.errors, category, [__all__ |-> <<>>])
                   ELSE e.errors
    IN  CASE payload.t = "dict" ->
               [e EXCEPT !.errors = Put(created, category, payload.m)]
          [] payload.t = "str" ->
               IF "__all__" \notin DOMAIN created[category]
               THEN [e EXCEPT !.errors = created, !.exc = "KeyError"]
               ELSE IF InList(payload.s, created[category]["__all__"])
                    THEN [e EXCEPT !.errors = created]
                    ELSE [e EXCEPT !.errors =
                            Put(created, category,
                                Put(created[category], "__all__",
                                    Append(created[category]["__all__"], payload.s)))]
          [] OTHER -> [e EXCEPT !.errors = created]

StatusMessage_Swapped(status_code) ==
    CASE status_code = 400 -> "Invalid API request"
      [] status_code = 401 -> "API request forbidden"
      [] status_code = 403 -> "Unauthorized API request"
      [] status_code = 404 -> "Requested resource was not found"
      [] status_code = 405 -> "API method not allowed"
      [] status_code >= 500 -> "System error occurred"
      [] OTHER -> ""

\* The if/elif chain of set_status: the message of a status code, "" for none.
StatusMessage(status_code) ==
    CASE status_code = 400 -> "Invalid API request"
      [] status_code = 401 -> "Unauthorized API request"
      [] status_code = 403 -> "API request forbidden"
      [] status_code = 404 -> "Requested resource was not found"
      [] status_code = 405 -> "API method not allowed"
      [] status_code >= 500 -> "System error occurred"
      [] OTHER -> ""

set_status(e, status_code) ==
    LET e1 == [e EXCEPT !.status = status_code]
    IN  IF StatusMessage(status_code) # ""
        THEN add_errors(e1, "api", StrPayload(StatusMessage(status_code)))
        ELSE e1

build_response(e) ==
    [kind |-> "built", response |-> NoResponse,
     body |-> [status |-> e.status, errors |-> e.errors, data |-> e.data,
               pagination |-> e.pagination]]

\* process(), lines 96-125: whether the input is eligible.
IsEligible(r, c) ==
    IF ~r.present /\ c.t = "null" THEN FALSE
    ELSE IF Truthy(c) /\ c.t = "dict"
         THEN ~({"meta", "data"} \subseteq Keys(c) /\ {"meta", "data"} # Keys(c))
    ELSE IF r.present
         THEN r.json /\ ("meta" \notin Keys(r.body) \/ "data" \notin Keys(r.body))
    ELSE FALSE

\* process(), lines 105-123: the data (and pagination) of an eligible input.
LoadData(e, r, c) ==
    IF Truthy(c) /\ c.t = "dict"
    THEN update_data(e, c)
    ELSE IF "meta" \in Keys(r.body) /\ "objects" \in Keys(r.body)
         THEN update_data([e EXCEPT !.pagination = [present |-> TRUE, value |-> r.body.f["meta"]]],
                          r.body.f["objects"])
         ELSE update_data(e, r.body)

\* process(), lines 129-135: the validator's form errors.
LoadFormErrors(e, v) ==
    IF v \in {"valid", "invalid"} /\ DOMAIN is_valid(v, e.data) # {}
    THEN LET e1 == add_errors(e, "form", DictPayload(is_valid(v, e.data)))
         IN  set_status(e1, 400)
    ELSE e

process(e, v, r, c) ==
    IF IsEligible(r, c)
    THEN LET loaded == LoadData(e, r, c)
             validated == LoadFormErrors(loaded, v)
             checked == IF validated.exc = "none" /\ contains_errors(validated)
                        THEN set_status(validated, 400)
                        ELSE validated
         IN  IF checked.exc # "none" THEN checked
             ELSE [checked EXCEPT !.is_modified = TRUE, !.is_processed = TRUE]
    ELSE [e EXCEPT !.is_processed = TRUE]

\* transform(), lines 203-209: the envelope was built.
transform_built(e) ==
    LET e1 == IF contains_errors(e) /\ get_status(e) = 200 THEN set_status(e, 400) ELSE e
    IN  IF e1.exc # "none" THEN e1 ELSE [e1 EXCEPT !.out = build_response(e1)]

transform_unbuilt_400(e, r) ==
    IF r.present
    THEN [e EXCEPT !.out = [kind |-> "response", response |-> r, body |-> NoBody]]
    ELSE LET e1 == IF get_status(e) < 400 THEN set_status(e, 400) ELSE e
         IN  IF e1.exc # "none" THEN e1 ELSE [e1 EXCEPT !.out = build_response(e1)]

\* transform(), lines 210-216: no envelope was built.
transform_unbuilt(e, r) ==
    IF r.present
    THEN [e EXCEPT !.out = [kind |-> "response", response |-> r, body |-> NoBody]]
    ELSE LET e1 == IF get_status(e) < 400 THEN set_status(e, 500) ELSE e
         IN  IF e1.exc # "none" THEN e1 ELSE [e1 EXCEPT !.out = build_response(e1)]

transform(e, v, r, c) ==
    LET e1 == IF ~e.is_processed THEN process(e, v, r, c) ELSE e
    IN  IF e1.exc # "none" THEN e1
        ELSE IF e1.is_modified THEN transform_built(e1)
        ELSE transform_unbuilt(e1, r)

-----------------------------------------------------------------------------
\* The calls a caller makes on the envelope

StatusCodes == {200, 400, 401, 403, 404, 405, 500}

Categories == {"api", "form"}

ErrorPayloads ==
    {StrPayload("custom error"), DictPayload(FieldErrors),
     DictPayload([__all__ |-> <<"custom error">>]), OtherPayload}

NoCall == [op |-> "__init__", code |-> 0, category |-> "", payload |-> OtherPayload]

Call(op) == [NoCall EXCEPT !.op = op]

\* The fields of the object after a call that left it as e.
Becomes(e, call) ==
    /\ status' = e.status
    /\ errors' = e.errors
    /\ data' = e.data
    /\ pagination' = e.pagination
    /\ is_modified' = e.is_modified
    /\ is_processed' = e.is_processed
    /\ exc' = e.exc
    /\ out' = e.out
    /\ last' = call
    /\ ncalls' = ncalls + 1
    /\ UNCHANGED <<validation, response, content>>

Init ==
    /\ validation \in Validations
    /\ \E i \in Inputs : response = i[1] /\ content = i[2]
    /\ is_modified = FALSE
    /\ is_processed = FALSE
    /\ status = InitialStatus(response)
    /\ errors = EmptyMap
    /\ data = EmptyDict
    /\ pagination = NoPagination
    /\ exc = "none"
    /\ out = NoOutput
    /\ last = NoCall
    /\ ncalls = 0

Process ==
    /\ ncalls < MaxCalls
    /\ Becomes(process(Self, validation, response, content), Call("process"))

ClearData ==
    /\ ncalls < MaxCalls
    /\ Becomes(clear_data(Self), Call("clear_data"))

AddErrors ==
    /\ ncalls < MaxCalls
    /\ \E category \in Categories, payload \in ErrorPayloads :
          Becomes(add_errors(Self, category, payload),
                  [NoCall EXCEPT !.op = "add_errors", !.category = category,
                                 !.payload = payload])

SetStatus ==
    /\ ncalls < MaxCalls
    /\ \E status_code \in StatusCodes :
          Becomes(set_status(Self, status_code),
                  [NoCall EXCEPT !.op = "set_status", !.code = status_code])

Transform ==
    /\ ncalls < MaxCalls
    /\ Becomes(transform(Self, validation, response, content), Call("transform"))

Next == Process \/ ClearData \/ AddErrors \/ SetStatus \/ Transform

Spec == Init /\ [][Next]_vars

-----------------------------------------------------------------------------
\* Properties

\* The payload process() looks at: the raw content when it is a non-empty
\* dict, the response body otherwise.
InputPayload == IF Truthy(content) /\ content.t = "dict" THEN content ELSE response.body

HasInputPayload ==
    \/ Truthy(content) /\ content.t = "dict"
    \/ response.present /\ response.json

Serialized == out.kind = "built"

\* C1: in every envelope transform() serializes, non-empty meta.errors
\* implies empty data.
C1_ErrorsImplyEmptyData ==
    Serialized /\ DOMAIN out.body.errors # {} => out.body.data = EmptyDict

\* C2: in every envelope transform() serializes, non-empty meta.errors
\* implies meta.status >= 400, and meta.status = 200 implies empty errors.
C2_ErrorsImplyFailureStatus ==
    Serialized =>
        /\ DOMAIN out.body.errors # {} => out.body.status >= 400
        /\ out.body.status = 200 => DOMAIN out.body.errors = {}

\* The messages the specification's error taxonomy gives.
TaxonomyMessage(code) ==
    CASE code = 400 -> "Invalid API request"
      [] code = 401 -> "Unauthorized"
      [] code = 403 -> "Forbidden"
      [] code = 404 -> "Not found"
      [] code = 405 -> "Method not allowed"
      [] code >= 500 -> "System error occurred"
      [] OTHER -> ""

\* The messages set_status is observed to record.
RecordedMessage(code) ==
    CASE code = 400 -> "Invalid API request"
      [] code = 401 -> "Unauthorized API request"
      [] code = 403 -> "API request forbidden"
      [] code = 404 -> "Requested resource was not found"
      [] code = 405 -> "API method not allowed"
      [] code >= 500 -> "System error occurred"
      [] OTHER -> ""

HasAllList(errs, category) ==
    category \in DOMAIN errs /\ "__all__" \in DOMAIN errs[category]

\* C3 as stated: after set_status(code), meta.status = code and the 'api'
\* category contains the taxonomy's message for 400, 401, 403, 404, 405 and
\* >= 500; for every other code meta.errors is unchanged.
C3_TaxonomyMessages ==
    [][last'.op = "set_status" =>
          /\ status' = last'.code
          /\ IF TaxonomyMessage(last'.code) # ""
             THEN /\ HasAllList(errors', "api")
                  /\ InList(TaxonomyMessage(last'.code), errors'["api"]["__all__"])
             ELSE errors' = errors]_vars

\* C3 amended: after set_status(code), meta.status = code; for 400, 401,
\* 403, 404, 405 and >= 500 the call records the message of the source
\* ("Unauthorized API request", "API request forbidden", "Requested resource
\* was not found", "API method not allowed", and the two the taxonomy has
\* right) in the 'api' category's '__all__' list, leaving the other
\* categories alone, unless 'api' holds a mapping without '__all__', where
\* the call raises KeyError with meta.errors unchanged; for every other code
\* the call returns with meta.errors unchanged.
C3_RecordedMessages ==
    [][last'.op = "set_status" =>
          /\ status' = last'.code
          /\ IF RecordedMessage(last'.code) = ""
             THEN exc' = "none" /\ errors' = errors
             ELSE IF "api" \in DOMAIN errors /\ ~HasAllList(errors, "api")
             THEN exc' = "KeyError" /\ errors' = errors
             ELSE /\ exc' = "none"
                  /\ HasAllList(errors', "api")
                  /\ InList(RecordedMessage(last'.code), errors'["api"]["__all__"])
                  /\ DOMAIN errors' = DOMAIN errors \cup {"api"}
                  /\ \A c \in DOMAIN errors : c # "api" => errors'[c] = errors[c]]_vars

C3_Witness ==
    /\ last.op = "set_status"
    /\ last.code = 401
    /\ exc = "none"
    /\ status = 401
    /\ HasAllList(errors, "api")
    /\ InList("Unauthorized API request", errors["api"]["__all__"])

\* C4: a transform() that directly follows a transform() returns the same
\* output and leaves status, errors, data and both flags as they were.
C4_TransformIdempotent ==
    [][last.op = "transform" /\ last'.op = "transform" =>
          /\ out' = out
          /\ exc' = exc
          /\ UNCHANGED <<status, errors, data, pagination, is_modified, is_processed>>]_vars

\* Idempotence of transform() where the first call returned: the only runs
\* that break C4_TransformIdempotent are those whose first call raised.
TransformIdempotentWhenReturned ==
    [][last.op = "transform" /\ exc = "none" /\ last'.op = "transform" =>
          /\ out' = out
          /\ exc' = exc
          /\ UNCHANGED <<status, errors, data, pagination, is_modified, is_processed>>]_vars

\* C5: after process() of an eligible input, a payload with both 'meta' and
\* 'objects' has left meta.pagination = payload['meta'] and data =
\* payload['objects']; any other payload has left data = payload and no
\* pagination key.
C5_PaginationHoisted ==
    [][/\ last'.op = "process"
       /\ HasInputPayload
       /\ IsEligible(response, content)
       =>
       IF {"meta", "objects"} \subseteq Keys(InputPayload)
       THEN /\ pagination' = [present |-> TRUE, value |-> InputPayload.f["meta"]]
            /\ data' = InputPayload.f["objects"]
       ELSE /\ data' = InputPayload
            /\ ~pagination'.present]_vars

\* C6: for an input payload that has both 'meta' and 'data' keys, process()
\* leaves status, errors, data and is_modified unchanged with is_modified
\* false, and transform() returns the supplied response object.
C6_EnvelopedInputUntouched ==
    [][HasInputPayload /\ {"meta", "data"} \subseteq Keys(InputPayload) =>
          /\ last'.op = "process" =>
                /\ UNCHANGED <<status, errors, data, is_modified>>
                /\ is_modified' = FALSE
          /\ last'.op = "transform" /\ response.present =>
                /\ out'.kind = "response"
                /\ out'.response = response]_vars

Occurrences(x, q) == Cardinality({i \in 1..Len(q) : q[i] = x})

\* C7: add_errors never raises, directly or through set_status; a string
\* payload ends up exactly once in the category's '__all__' list and a
\* mapping payload becomes the category's content.
C7_AddErrorsNeverRaises ==
    /\ last.op = "add_errors" =>
          /\ exc = "none"
          /\ last.payload.t = "str" =>
                /\ HasAllList(errors, last.category)
                /\ Occurrences(last.payload.s, errors[last.category]["__all__"]) = 1
          /\ last.payload.t = "dict" =>
                /\ last.category \in DOMAIN errors
                /\ errors[last.category] = last.payload.m
    /\ last.op = "set_status" /\ StatusMessage(last.code) # "" =>
          /\ exc = "none"
          /\ HasAllList(errors, "api")
          /\ Occurrences(StatusMessage(last.code), errors["api"]["__all__"]) = 1

NoInput == ~response.present /\ content = JNull

C9_FailureStatusKept ==
    [][/\ last'.op = "process"
       /\ response.present
       /\ IsEligible(response, content)
       =>
       /\ status > 400 => status' = status
       /\ status' = 400 /\ status # 400 => status < 400 /\ DOMAIN errors' # {}]_vars

\* C10: once is_processed is true, process() changes none of status,
\* errors, data, pagination and is_modified.
C10_ProcessOnlyOnce ==
    [][is_processed /\ last'.op = "process" =>
          UNCHANGED <<status, errors, data, pagination, is_modified>>]_vars

====
